---- MODULE Spec2Model ----
(***************************************************************************)
(* Model of the Lassa Fever Dashboard API (src/main.py): the data file,    *)
(* load_and_validate_data, and the GET / and GET /summary handlers with    *)
(* the pandas aggregation pipeline of get_summary.                         *)
(*                                                                         *)
(* Text that the code transforms character by character (Sex, Last_Update, *)
(* Age cells, the YearWeek label, Gender) is a sequence of one-character   *)
(* strings; text that the code only compares for equality (Outcome,        *)
(* Case_Status, State, LGA, Patient_ID) is a TLA+ string.                  *)
(* metadata.generated_at (the wall clock) is not modelled.                 *)
(*                                                                         *)
(* pandas is modelled as its 1.x/2.x releases behave, which the code       *)
(* relies on (its replace key 'nan'): astype(str) turns a missing value    *)
(* into the text "nan" (float column) or "<NA>" (nullable integer column). *)
(* A table with a header and no rows goes through the pipeline and yields  *)
(* empty breakdowns. Percentages are integers: tenths of a percent where   *)
(* the code rounds to one decimal, whole percents where it rounds to none. *)
(***************************************************************************)
EXTENDS Integers, Sequences, FiniteSets, TLC

\* ------------------------------------------------------------------ bounds
\* Longest table (data rows of the CSV file) the initial states draw.
MaxRows == 2
\* Number of requests the serving layer runs at the same time.
NumWorkers == 2

\* ------------------------------------------------------------- characters
LowerCase == <<"a","b","c","d","e","f","g","h","i","j","k","l","m",
               "n","o","p","q","r","s","t","u","v","w","x","y","z">>
UpperCase == <<"A","B","C","D","E","F","G","H","I","J","K","L","M",
               "N","O","P","Q","R","S","T","U","V","W","X","Y","Z">>
Digits == <<"0","1","2","3","4","5","6","7","8","9">>
\* The characters the model uses, in code point order (Python compares
\* strings by code point).
CodePoints == <<" ", "-", ".", "/">> \o Digits \o <<"<", ">">> \o UpperCase \o LowerCase

IndexIn(c, s) == IF \E i \in 1..Len(s) : s[i] = c
                 THEN CHOOSE i \in 1..Len(s) : s[i] = c
                 ELSE 0

IsLower(c) == IndexIn(c, LowerCase) > 0
IsUpper(c) == IndexIn(c, UpperCase) > 0
IsCased(c) == IsLower(c) \/ IsUpper(c)
IsDigit(c) == IndexIn(c, Digits) > 0
ToUpper(c) == IF IsLower(c) THEN UpperCase[IndexIn(c, LowerCase)] ELSE c
ToLower(c) == IF IsUpper(c) THEN LowerCase[IndexIn(c, UpperCase)] ELSE c
Ord(c) == IndexIn(c, CodePoints)

\* Python's s < t on str: lexicographic by code point, a proper prefix first.
RECURSIVE StrLess(_, _)
StrLess(s, t) ==
    IF t = << >> THEN FALSE
    ELSE IF s = << >> THEN TRUE
    ELSE IF Ord(Head(s)) < Ord(Head(t)) THEN TRUE
    ELSE IF Ord(Head(s)) > Ord(Head(t)) THEN FALSE
    ELSE StrLess(Tail(s), Tail(t))

\* str.strip(): leading and trailing whitespace removed.
RECURSIVE LStrip(_)
LStrip(s) == IF s # << >> /\ Head(s) = " " THEN LStrip(Tail(s)) ELSE s
RECURSIVE RStrip(_)
RStrip(s) == IF s # << >> /\ s[Len(s)] = " "
             THEN RStrip(SubSeq(s, 1, Len(s) - 1))
             ELSE s
Strip(s) == RStrip(LStrip(s))

\* str.title(): a cased character is upper-cased when the character before
\* it is not cased, lower-cased otherwise.
Title(s) == [i \in 1..Len(s) |->
                IF ~IsCased(s[i]) THEN s[i]
                ELSE IF i > 1 /\ IsCased(s[i - 1]) THEN ToLower(s[i])
                ELSE ToUpper(s[i])]

\* str(n) of a natural number.
RECURSIVE IntToStr(_)
IntToStr(n) == IF n < 10 THEN <<Digits[n + 1]>>
               ELSE IntToStr(n \div 10) \o <<Digits[(n % 10) + 1]>>

\* int(s) of a string of decimal digits.
RECURSIVE StrToInt(_)
StrToInt(s) == IF s = << >> THEN 0
               ELSE 10 * StrToInt(SubSeq(s, 1, Len(s) - 1))
                    + (IndexIn(s[Len(s)], Digits) - 1)

IsNumeric(s) == s # << >> /\ \A i \in 1..Len(s) : IsDigit(s[i])

\* str.zfill(width): zeros on the left up to width; longer strings unchanged.
RECURSIVE Zfill(_, _)
Zfill(s, width) == IF Len(s) >= width THEN s ELSE Zfill(<<"0">> \o s, width)

\* ------------------------------------------------------------------ dates
IsLeap(y) == (y % 4 = 0 /\ y % 100 # 0) \/ y % 400 = 0

DaysInMonth(y, m) ==
    IF m = 2 THEN (IF IsLeap(y) THEN 29 ELSE 28)
    ELSE IF m \in {4, 6, 9, 11} THEN 30 ELSE 31

RECURSIVE DaysBeforeMonth(_, _)
DaysBeforeMonth(y, m) ==
    IF m = 1 THEN 0 ELSE DaysBeforeMonth(y, m - 1) + DaysInMonth(y, m - 1)

DayOfYear(t) == DaysBeforeMonth(t.y, t.m) + t.d

\* Proleptic Gregorian ordinal: 0001-01-01 is day 1 and a Monday.
Ordinal(t) ==
    LET p == t.y - 1
    IN  365 * p + (p \div 4) - (p \div 100) + (p \div 400) + DayOfYear(t)

\* ISO weekday, Monday = 1 .. Sunday = 7.
Weekday(t) == ((Ordinal(t) - 1) % 7) + 1

\* Number of ISO weeks of ISO year y: 53 when 1 January is a Thursday, or a
\* Wednesday of a leap year.
WeeksInYear(y) ==
    LET jan1 == Weekday([y |-> y, m |-> 1, d |-> 1])
    IN  IF jan1 = 4 \/ (jan1 = 3 /\ IsLeap(y)) THEN 53 ELSE 52

\* ISO-8601 (year, week) of a date: Timestamp.isocalendar().
IsoCalendar(t) ==
    LET w == (DayOfYear(t) - Weekday(t) + 10) \div 7
    IN  IF w < 1 THEN [year |-> t.y - 1, week |-> WeeksInYear(t.y - 1)]
        ELSE IF w > WeeksInYear(t.y) THEN [year |-> t.y + 1, week |-> 1]
        ELSE [year |-> t.y, week |-> w]

\* ----------------------------------------------------------- missing data
\* pandas' missing value in a column of scalars or plain strings ...
NaN == "NaN"
\* ... and in a column whose values are character sequences.
NaS == <<"NaN">>
\* NaT: the missing datetime that to_datetime(errors='coerce') yields.
NaT == [y |-> 0, m |-> 0, d |-> 0]

\* ------------------------------------------------------------ string data
S_nan == <<"n","a","n">>
S_NA == <<"<","N","A",">">>
S_M == <<"M">>
S_F == <<"F">>
S_Male == <<"M","a","l","e">>
S_Female == <<"F","e","m","a","l","e">>
S_MaleDot == S_Male \o <<".">>
S_FemaleDot == S_Female \o <<".">>
S_OtherUnknown == <<"O","t","h","e","r","/","U","n","k","n","o","w","n">>
S_0_14 == <<"0","-","1","4">>
S_15_49 == <<"1","5","-","4","9">>
S_50plus == <<"5","0","+">>
S_W == <<"-","W">>
S_dot0 == <<".","0">>

\* ------------------------------------------------------------ the data file
DATA_FILE == "extended_patient_outbreak_dataset_5000_diverse.csv"

required_columns == {"Patient_ID", "Age", "Sex", "Outcome", "State", "LGA",
                     "Case_Status", "Last_Update"}
\* Columns whose cells the model keeps as character sequences.
SeqColumns == {"Age", "Sex", "Last_Update"}

\* The file at DATA_FILE: absent, present but not readable as a table, or a
\* CSV table with a header (columns) and data rows of cell texts.
NoFile == [kind |-> "missing", columns |-> {}, rows |-> << >>]
BadFile == [kind |-> "garbage", columns |-> {}, rows |-> << >>]
CsvFile(cols, rows) == [kind |-> "csv", columns |-> cols, rows |-> rows]

\* read_csv's default na_values that the model's cells use: the empty cell,
\* "NA" and "nan".
IsNaText(col, cell) ==
    IF col \in SeqColumns
    THEN cell \in {<< >>, <<"N","A">>, S_nan}
    ELSE cell = ""

\* pd.read_csv: missing cells become NaN; a column is numeric when every
\* cell that is not missing is a number, and stays text (object) otherwise.
\* Age is the only column whose inferred type the pipeline depends on.
ReadCsv(file) ==
    LET ageNumeric ==
            \A i \in 1..Len(file.rows) :
                \/ IsNaText("Age", file.rows[i]["Age"])
                \/ IsNumeric(file.rows[i]["Age"])
        Cell(col, cell) ==
            IF col = "Age"
            THEN IF IsNaText(col, cell) THEN [kind |-> "nan", val |-> 0]
                 ELSE IF ageNumeric THEN [kind |-> "num", val |-> StrToInt(cell)]
                 ELSE [kind |-> "str", val |-> 0]
            ELSE IF IsNaText(col, cell)
                 THEN (IF col \in SeqColumns THEN NaS ELSE NaN)
                 ELSE cell
    IN  [columns |-> file.columns,
         rows |-> [i \in 1..Len(file.rows) |->
                     [col \in file.columns |-> Cell(col, file.rows[i][col])]]]

\* An exception: its str() is text followed by the names (a set, printed in
\* no fixed order) or by nothing.
Exception(type, text, names) == [type |-> type, text |-> text, names |-> names]

Raised(e) == [ok |-> FALSE, df |-> [columns |-> {}, rows |-> << >>], error |-> e]
Returned(df) == [ok |-> TRUE, df |-> df, error |-> Exception("", "", {})]

\* A mutant of load_and_validate_data: the schema error names only one of
\* the missing columns.
load_one_missing(file) ==
    IF file.kind = "missing"
    THEN Raised(Exception("FileNotFoundError", "Data file not found: ", {DATA_FILE}))
    ELSE IF file.kind = "garbage"
    THEN Raised(Exception("ValueError", "Error reading CSV file: ", {}))
    ELSE LET df == ReadCsv(file)
             missing == required_columns \ df.columns
         IN  IF missing # {}
             THEN Raised(Exception("ValueError", "Missing required columns: ",
                                   {CHOOSE c \in missing : TRUE}))
             ELSE Returned(df)

\* load_and_validate_data(), as a function of the file it finds.
load_and_validate_data(file) ==
    IF file.kind = "missing"
    THEN Raised(Exception("FileNotFoundError", "Data file not found: ", {DATA_FILE}))
    ELSE IF file.kind = "garbage"
    THEN Raised(Exception("ValueError", "Error reading CSV file: ", {}))
    ELSE LET df == ReadCsv(file)
             missing == required_columns \ df.columns
         IN  IF missing # {}
             THEN Raised(Exception("ValueError", "Missing required columns: ", missing))
             ELSE Returned(df)

\* ------------------------------------------- get_summary: derived columns
\* pd.to_datetime(value, errors='coerce') on the texts the model uses: an
\* ISO "YYYY-MM-DD" date within Timestamp's range parses, anything else
\* (missing, free text, an impossible month or day) is NaT.
to_datetime(s) ==
    IF s = NaS \/ Len(s) # 10 THEN NaT
    ELSE IF ~(/\ s[5] = "-" /\ s[8] = "-"
              /\ \A i \in {1, 2, 3, 4, 6, 7, 9, 10} : IsDigit(s[i])) THEN NaT
    ELSE LET y == StrToInt(SubSeq(s, 1, 4))
             m == StrToInt(SubSeq(s, 6, 7))
             d == StrToInt(SubSeq(s, 9, 10))
         IN  IF /\ y \in 1678..2261
                /\ m \in 1..12
                /\ d \in 1..DaysInMonth(y, m)
             THEN [y |-> y, m |-> m, d |-> d]
             ELSE NaT

\* Series.dt.year: an integer column when no value is NaT, a float column
\* (NaN for NaT) as soon as one is.
dt_year(ts) ==
    LET anyNaT == \E i \in 1..Len(ts) : ts[i] = NaT
    IN  [i \in 1..Len(ts) |->
            IF ts[i] = NaT THEN [kind |-> "nan", v |-> 0]
            ELSE [kind |-> IF anyNaT THEN "float" ELSE "int", v |-> ts[i].y]]

\* Series.dt.isocalendar().week: a nullable UInt32 column, <NA> for NaT.
dt_isocalendar_week(ts) ==
    [i \in 1..Len(ts) |->
        IF ts[i] = NaT THEN [kind |-> "NA", v |-> 0]
        ELSE [kind |-> "int", v |-> IsoCalendar(ts[i]).week]]

\* Series.astype(str) on one value: str() of the value, missing ones too.
astype_str(x) ==
    CASE x.kind = "int" -> IntToStr(x.v)
      [] x.kind = "float" -> IntToStr(x.v) \o S_dot0
      [] x.kind = "nan" -> S_nan
      [] x.kind = "NA" -> S_NA

\* df['Year'].astype(str) + '-W' + df['Week'].astype(str).str.zfill(2)
YearWeekLabel(year, week) == astype_str(year) \o S_W \o Zfill(astype_str(week), 2)

\* Lines 67-70: Last_Update parsed, and the Year, Week, YearWeek columns.
WithTimeColumns(rows) ==
    LET ts == [i \in 1..Len(rows) |-> to_datetime(rows[i].Last_Update)]
        year == dt_year(ts)
        week == dt_isocalendar_week(ts)
    IN  [i \in 1..Len(rows) |->
            [c \in DOMAIN rows[i] \ {"Last_Update"} |-> rows[i][c]]
            @@ [Last_Update |-> ts[i],
                Year |-> year[i],
                Week |-> week[i],
                YearWeek |-> YearWeekLabel(year[i], week[i])]]

\* A mutant of get_age_group: a missing age is left without a group.
get_age_group_null(age) ==
    IF age.kind = "nan" THEN [raised |-> FALSE, value |-> NaS]
    ELSE IF age.kind = "str" THEN [raised |-> TRUE, value |-> NaS]
    ELSE IF age.val <= 14 THEN [raised |-> FALSE, value |-> S_0_14]
    ELSE IF age.val <= 49 THEN [raised |-> FALSE, value |-> S_15_49]
    ELSE [raised |-> FALSE, value |-> S_50plus]

\* get_age_group(age); comparing a str with 14 raises TypeError.
get_age_group(age) ==
    IF age.kind = "nan" THEN [raised |-> FALSE, value |-> S_OtherUnknown]
    ELSE IF age.kind = "str" THEN [raised |-> TRUE, value |-> NaS]
    ELSE IF age.val <= 14 THEN [raised |-> FALSE, value |-> S_0_14]
    ELSE IF age.val <= 49 THEN [raised |-> FALSE, value |-> S_15_49]
    ELSE [raised |-> FALSE, value |-> S_50plus]

\* Series.replace(dict): a value equal to a key becomes that key's value.
GenderReplace(s) ==
    CASE s = S_M -> S_Male
      [] s = S_F -> S_Female
      [] s = S_MaleDot -> S_Male
      [] s = S_FemaleDot -> S_Female
      [] s = S_nan -> S_OtherUnknown
      [] OTHER -> s

\* Lines 86-99: astype(str), strip, title, replace, fillna.
NormalizeGender(sex) ==
    LET asStr == IF sex = NaS THEN S_nan ELSE sex
        replaced == GenderReplace(Title(Strip(asStr)))
    IN  IF replaced = NaS THEN S_OtherUnknown ELSE replaced

\* Lines 67-99: every derived column, or the exception that apply() raises.
DeriveColumns(rows) ==
    LET t == WithTimeColumns(rows)
        group == [i \in 1..Len(t) |-> get_age_group(t[i].Age)]
    IN  IF \E i \in 1..Len(t) : group[i].raised
        THEN [ok |-> FALSE, rows |-> t,
              error |-> Exception("TypeError",
                  "'<=' not supported between instances of 'str' and 'int'", {})]
        ELSE [ok |-> TRUE,
              rows |-> [i \in 1..Len(t) |->
                          t[i] @@ [AgeGroup |-> group[i].value,
                                   Gender |-> NormalizeGender(t[i].Sex)]],
              error |-> Exception("", "", {})]

\* ---------------------------------------------- get_summary: aggregation
\* n / d rounded to the nearest integer, a tie to the even one (Python's
\* round on a value that is exact in binary).
RoundHalfEven(n, d) ==
    LET q == n \div d
        r == n % d
    IN  IF 2 * r > d THEN q + 1
        ELSE IF 2 * r < d THEN q
        ELSE q + (q % 2)

\* round(num / den * 100, 1), as a number of tenths of a percent.
RoundPercent1(num, den) == RoundHalfEven(1000 * num, den)
\* round(num / den * 100), a whole percent.
RoundPercent0(num, den) == RoundHalfEven(100 * num, den)

\* Line 103: df[df['Case_Status'] == 'Confirmed']
ConfirmedRows(rows) == SelectSeq(rows, LAMBDA r : r.Case_Status = "Confirmed")

\* A mutant of kpi_deaths: Deceased rows are counted in the whole table.
kpi_deaths_all_rows(rows) == Len(SelectSeq(rows, LAMBDA r : r.Outcome = "Deceased"))

\* Line 106: confirmed[confirmed['Outcome'] == 'Deceased'].shape[0]
kpi_deaths(rows) == Len(SelectSeq(ConfirmedRows(rows), LAMBDA r : r.Outcome = "Deceased"))

\* Line 107: confirmed[confirmed['Outcome'] == 'Discharged'].shape[0]
kpi_recoveries(rows) ==
    Len(SelectSeq(ConfirmedRows(rows), LAMBDA r : r.Outcome = "Discharged"))

\* A mutant of RatePercent: the division is not guarded, and Python raises
\* ZeroDivisionError when there is no confirmed case.
RatePercentUnguarded(count, confirmed_cases) ==
    IF confirmed_cases = 0 THEN [raised |-> TRUE, value |-> 0]
    ELSE [raised |-> FALSE, value |-> RoundPercent1(count, confirmed_cases)]

\* Lines 109-110: a rate in tenths of a percent, 0.0 without confirmed cases.
RatePercent(count, confirmed_cases) ==
    IF confirmed_cases > 0
    THEN [raised |-> FALSE, value |-> RoundPercent1(count, confirmed_cases)]
    ELSE [raised |-> FALSE, value |-> 0]

\* Series.nunique(): the distinct values that are not missing.
nunique(values) == Cardinality({values[i] : i \in 1..Len(values)} \ {NaN})

\* Lines 109-110: whether computing the two rates raises.
RatesRaise(rows) ==
    LET confirmed_cases == Len(ConfirmedRows(rows))
    IN  \/ RatePercent(kpi_deaths(rows), confirmed_cases).raised
        \/ RatePercent(kpi_recoveries(rows), confirmed_cases).raised

\* Lines 102-113 and 181-189: the KPI block.
Kpi(rows) ==
    LET confirmed_cases == Len(ConfirmedRows(rows))
        deaths == kpi_deaths(rows)
        recoveries == kpi_recoveries(rows)
    IN  [confirmed_cases |-> confirmed_cases,
         recoveries |-> recoveries,
         deaths |-> deaths,
         fatality_rate_percent |-> RatePercent(deaths, confirmed_cases).value,
         recovery_rate_percent |-> RatePercent(recoveries, confirmed_cases).value,
         states_affected |-> nunique([i \in 1..Len(rows) |-> rows[i].State]),
         lgas_affected |-> nunique([i \in 1..Len(rows) |-> rows[i].LGA])]

\* Series.value_counts(): the distinct values that are not missing with
\* their counts, the largest count first, equal counts in order of first
\* appearance.
value_counts(series) ==
    LET first == {i \in 1..Len(series) :
                     /\ series[i] # NaS
                     /\ \A j \in 1..(i - 1) : series[j] # series[i]}
        cnt(i) == Cardinality({j \in 1..Len(series) : series[j] = series[i]})
        RECURSIVE Order(_)
        Order(rest) ==
            IF rest = {} THEN << >>
            ELSE LET best == CHOOSE i \in rest : \A j \in rest :
                                 \/ cnt(i) > cnt(j)
                                 \/ cnt(i) = cnt(j) /\ i <= j
                 IN  <<[index |-> series[best], count |-> cnt(best)]>>
                     \o Order(rest \ {best})
    IN  Order(first)

\* Lines 116-125: build_breakdown(series, total); percentage in tenths.
build_breakdown(series, total) ==
    LET counts == value_counts(series)
    IN  [k \in 1..Len(counts) |->
            [category |-> counts[k].index,
             count |-> counts[k].count,
             percentage |-> RoundPercent1(counts[k].count, total)]]

\* The State and LGA names of the model's tables in ascending string order:
\* groupby sorts its keys, missing keys last.
SortedNames == <<"Akure", "Edo", "Ondo", "Owo">>
NameRank(name) == IF name = NaN THEN Len(SortedNames) + 1 ELSE IndexIn(name, SortedNames)
KeyLess(a, b) ==
    \/ NameRank(a[1]) < NameRank(b[1])
    \/ NameRank(a[1]) = NameRank(b[1]) /\ NameRank(a[2]) < NameRank(b[2])

RECURSIVE SortKeys(_)
SortKeys(keys) ==
    IF keys = {} THEN << >>
    ELSE LET least == CHOOSE k \in keys : \A other \in keys \ {k} : KeyLess(k, other)
         IN  <<least>> \o SortKeys(keys \ {least})

RECURSIVE SortLabels(_)
SortLabels(labels) ==
    IF labels = {} THEN << >>
    ELSE LET least == CHOOSE l \in labels : \A other \in labels \ {l} : StrLess(l, other)
         IN  <<least>> \o SortLabels(labels \ {least})

\* The aggregation ('Patient_ID', 'count'): the values that are not missing.
count_Patient_ID(group) == Len(SelectSeq(group, LAMBDA r : r.Patient_ID # NaN))

\* Lines 131-151: one entry per (LGA, State) group, missing keys kept.
lga_breakdown(rows) ==
    LET keys == SortKeys({<<rows[i].LGA, rows[i].State>> : i \in 1..Len(rows)})
        Entry(k) ==
            LET group == SelectSeq(rows, LAMBDA r : <<r.LGA, r.State>> = k)
                cases == count_Patient_ID(group)
                recoveries == Len(SelectSeq(group, LAMBDA r : r.Outcome = "Discharged"))
                dated == {i \in 1..Len(group) : group[i].Last_Update # NaT}
                latest == CHOOSE i \in dated : \A j \in dated :
                              Ordinal(group[j].Last_Update) <= Ordinal(group[i].Last_Update)
                newest == CHOOSE i \in dated : \A j \in dated :
                              group[j].Year.v <= group[i].Year.v
            IN  [lga |-> IF k[1] # NaN THEN k[1] ELSE "Unknown",
                 state |-> IF k[2] # NaN THEN k[2] ELSE "Unknown",
                 cases |-> cases,
                 deaths |-> Len(SelectSeq(group, LAMBDA r : r.Outcome = "Deceased")),
                 recovery_rate_percent |->
                     IF cases > 0 THEN RoundPercent0(recoveries, cases) ELSE 0,
                 last_update |-> IF dated # {} THEN group[latest].Last_Update ELSE NaT,
                 year |-> IF dated # {} THEN [kind |-> "int", v |-> group[newest].Year.v]
                          ELSE [kind |-> "None", v |-> 0]]
    IN  [n \in 1..Len(keys) |-> Entry(keys[n])]

\* Lines 154-172: one row per YearWeek label (a missing label has no group),
\* ascending by the label as a string.
weekly_trend(rows) ==
    LET labels == SortLabels({rows[i].YearWeek : i \in 1..Len(rows)} \ {NaS})
        Row(label) ==
            LET group == SelectSeq(rows, LAMBDA r : r.YearWeek = label)
            IN  [year_week |-> label,
                 total_cases |-> count_Patient_ID(group),
                 confirmed_cases |-> Len(SelectSeq(group, LAMBDA r : r.Case_Status = "Confirmed")),
                 deaths |-> Len(SelectSeq(group, LAMBDA r : r.Outcome = "Deceased")),
                 recoveries |-> Len(SelectSeq(group, LAMBDA r : r.Outcome = "Discharged"))]
    IN  [n \in 1..Len(labels) |-> Row(labels[n])]

\* Lines 175-196: the response body, from the frame with its derived columns.
SummaryBody(rows) ==
    LET total_cases == Len(rows)
    IN  [metadata |-> [data_file |-> DATA_FILE, total_records |-> total_cases],
         kpi |-> Kpi(rows),
         demographics |->
             [age_groups |-> build_breakdown([i \in 1..Len(rows) |-> rows[i].AgeGroup],
                                             total_cases),
              gender |-> build_breakdown([i \in 1..Len(rows) |-> rows[i].Gender],
                                         total_cases)],
         lga_breakdown |-> lga_breakdown(rows),
         weekly_trend |-> weekly_trend(rows)]

\* ------------------------------------------------------------- responses
Http200(body) == [status |-> 200, body |-> body]

\* HTTPException(status_code=500, detail=f"Aggregation failed: {str(e)}")
Http500(e) ==
    [status |-> 500,
     body |-> [detail |-> [prefix |-> "Aggregation failed: ",
                           text |-> e.text,
                           names |-> e.names]]]

RootBody == [message |-> "Lassa Fever Dashboard API is live!", endpoints |-> <<"/summary">>]

\* ------------------------------------------------------- the input tables
\* The text "YYYY-MM-DD" of a date.
DateText(y, m, d) ==
    Zfill(IntToStr(y), 4) \o <<"-">> \o Zfill(IntToStr(m), 2) \o <<"-">> \o Zfill(IntToStr(d), 2)

DefaultRow ==
    [Patient_ID |-> "P1", Age |-> <<"3","0">>, Sex |-> S_Male, Outcome |-> "",
     State |-> "Ondo", LGA |-> "Owo", Case_Status |-> "Confirmed",
     Last_Update |-> DateText(2024, 1, 10)]

\* Last_Update cells: dates around the turn of the year (where the calendar
\* year and the ISO week-year differ), an empty cell, free text and an
\* impossible date.
DateCells ==
    {DateText(2024, 1, 10), DateText(2024, 6, 1), DateText(2024, 12, 30),
     DateText(2025, 1, 2), DateText(2021, 1, 1),
     << >>, <<"n","/","a">>, DateText(2024, 13, 45)}
AgeCells == {<< >>, <<"1","4">>, <<"1","5">>, <<"4","9">>, <<"5","0">>, <<"x">>}
SexCells ==
    {<< >>, <<"M">>, <<"f">>, <<"m","a","l","e">>, <<"F","E","M","A","L","E">>,
     S_MaleDot, <<" ","f","e","m","a","l","e","."," ">>, <<" ">>,
     <<"u","n","k","n","o","w","n">>}

\* The rows of one table vary in the columns one part of the pipeline reads.
TimeRows == {[DefaultRow EXCEPT !.Last_Update = t] : t \in DateCells}
AgeRows == {[DefaultRow EXCEPT !.Age = a, !.Sex = x] : a \in AgeCells, x \in {S_Male, << >>}}
SexRows == {[DefaultRow EXCEPT !.Sex = x] : x \in SexCells}
KpiRows ==
    {[DefaultRow EXCEPT !.Case_Status = c, !.Outcome = o, !.LGA = l] :
        c \in {"Confirmed", "Suspected"},
        o \in {"Deceased", "Discharged", ""},
        l \in {"Owo", "Akure"}}
GeoRows ==
    {[DefaultRow EXCEPT !.Patient_ID = p, !.LGA = l, !.State = st] :
        p \in {"P1", ""}, l \in {"Owo", ""}, st \in {"Ondo", ""}}

\* Every sequence of at most n elements of S.
SeqsUpTo(S, n) == UNION {[1..k -> S] : k \in 0..n}

Tables ==
    UNION {SeqsUpTo(R, MaxRows) : R \in {TimeRows, AgeRows, SexRows, KpiRows, GeoRows}}

\* Tables whose header lacks some of the required columns.
LackingFiles ==
    {CsvFile(cols, <<[c \in cols |-> DefaultRow[c]]>>) :
        cols \in (SUBSET required_columns) \ {required_columns}}

Files == {NoFile, BadFile} \cup LackingFiles
         \cup {CsvFile(required_columns, rows) : rows \in Tables}

\* The files that the environment puts in place while the service runs.
EnvFiles ==
    {NoFile,
     CsvFile(required_columns, <<DefaultRow>>),
     CsvFile(required_columns,
             <<[DefaultRow EXCEPT !.Outcome = "Deceased"],
               [DefaultRow EXCEPT !.Last_Update = << >>, !.Age = <<"x">>]>>),
     CsvFile(required_columns,
             <<DefaultRow, [DefaultRow EXCEPT !.Sex = << >>, !.Patient_ID = ""]>>)}

\* ------------------------------------------------------- the state machine
VARIABLES
    file,    \* the file at DATA_FILE
    pc,      \* per worker: "idle", "loaded" (line 63 returned), "done"
    df,      \* per worker: get_summary's local frame (its rows)
    src,     \* per worker: the file as load_and_validate_data found it
    resp,    \* per worker: the response of the finished handler
    served   \* the (file found, response) pairs of the /summary responses sent

vars == <<file, pc, df, src, resp, served>>

Workers == 1..NumWorkers

NoRead == [kind |-> "none", columns |-> {}, rows |-> << >>]
NoResponse == [status |-> 0, body |-> [none |-> TRUE]]

TypeOK ==
    /\ pc \in [Workers -> {"idle", "loaded", "done"}]
    /\ DOMAIN df = Workers /\ DOMAIN src = Workers /\ DOMAIN resp = Workers

Idle ==
    /\ pc = [w \in Workers |-> "idle"]
    /\ df = [w \in Workers |-> << >>]
    /\ src = [w \in Workers |-> NoRead]
    /\ resp = [w \in Workers |-> NoResponse]
    /\ served = {}

Init == file \in Files /\ Idle

InitEnv == file \in EnvFiles /\ Idle

\* GET /: root() answers at once and reads nothing.
Root(w) ==
    /\ pc[w] = "idle"
    /\ pc' = [pc EXCEPT ![w] = "done"]
    /\ resp' = [resp EXCEPT ![w] = Http200(RootBody)]
    /\ UNCHANGED <<file, df, src, served>>

\* A mutant of Load: the table read first is kept and reused by later loads.
LoadCached(w) ==
    /\ pc[w] = "idle"
    /\ LET found == IF \E p \in served : p[1].kind = "csv"
                    THEN (CHOOSE p \in served : p[1].kind = "csv")[1]
                    ELSE file
           res == load_and_validate_data(found)
       IN  /\ src' = [src EXCEPT ![w] = file]
           /\ IF res.ok
              THEN /\ pc' = [pc EXCEPT ![w] = "loaded"]
                   /\ df' = [df EXCEPT ![w] = res.df.rows]
                   /\ UNCHANGED resp
              ELSE /\ pc' = [pc EXCEPT ![w] = "done"]
                   /\ resp' = [resp EXCEPT ![w] = Http500(res.error)]
                   /\ UNCHANGED df
    /\ UNCHANGED <<file, served>>

\* GET /summary, line 63: the file is read; an exception of
\* load_and_validate_data goes to the handler's except clause (line 199).
Load(w) ==
    /\ pc[w] = "idle"
    /\ LET res == load_and_validate_data(file)
       IN  /\ src' = [src EXCEPT ![w] = file]
           /\ IF res.ok
              THEN /\ pc' = [pc EXCEPT ![w] = "loaded"]
                   /\ df' = [df EXCEPT ![w] = res.df.rows]
                   /\ UNCHANGED resp
              ELSE /\ pc' = [pc EXCEPT ![w] = "done"]
                   /\ resp' = [resp EXCEPT ![w] = Http500(res.error)]
                   /\ UNCHANGED df
    /\ UNCHANGED <<file, served>>

\* GET /summary, lines 64-199: the copy of the frame gets its derived
\* columns and is aggregated; any exception becomes the 500 response.
Aggregate(w) ==
    /\ pc[w] = "loaded"
    /\ LET derived == DeriveColumns(df[w])
       IN  /\ df' = [df EXCEPT ![w] = derived.rows]
           /\ resp' = [resp EXCEPT ![w] =
                          IF ~derived.ok THEN Http500(derived.error)
                          ELSE IF RatesRaise(derived.rows)
                          THEN Http500(Exception("ZeroDivisionError",
                                                 "division by zero", {}))
                          ELSE Http200(SummaryBody(derived.rows))]
    /\ pc' = [pc EXCEPT ![w] = "done"]
    /\ UNCHANGED <<file, src, served>>

\* The response is sent and the handler's locals are gone.
Return(w) ==
    /\ pc[w] = "done"
    /\ served' = IF src[w] = NoRead THEN served ELSE served \cup {<<src[w], resp[w]>>}
    /\ pc' = [pc EXCEPT ![w] = "idle"]
    /\ df' = [df EXCEPT ![w] = << >>]
    /\ src' = [src EXCEPT ![w] = NoRead]
    /\ resp' = [resp EXCEPT ![w] = NoResponse]
    /\ UNCHANGED file

\* The environment replaces, removes or corrupts the data file.
WriteFile(f) ==
    /\ f # file
    /\ file' = f
    /\ UNCHANGED <<pc, df, src, resp, served>>

\* One worker: the requests are served one after the other.
Serial == {w \in Workers : \A v \in Workers : w <= v}

Next == \E w \in Serial : Root(w) \/ Load(w) \/ Aggregate(w) \/ Return(w)

NextEnv ==
    \/ \E w \in Workers : Root(w) \/ Load(w) \/ Aggregate(w) \/ Return(w)
    \/ \E f \in EnvFiles : WriteFile(f)

\* The service answering one request at a time over a data file that stays
\* as it is: every table of Files goes through the whole pipeline.
Spec == Init /\ [][Next]_vars

\* The workers serving requests at the same time while the environment
\* rewrites the data file.
SpecEnv == InitEnv /\ [][NextEnv]_vars

\* ------------------------------------------------------------ properties
\* Worker w has finished a /summary request / finished it with status 200
\* (df[w] is then the frame with its derived columns).
SummaryDone(w) == pc[w] = "done" /\ src[w] # NoRead
SummaryOk(w) == SummaryDone(w) /\ resp[w].status = 200

RECURSIVE SumOf(_, _)
SumOf(entries, fld) ==
    IF entries = << >> THEN 0 ELSE Head(entries)[fld] + SumOf(Tail(entries), fld)

Parseable(rows) == {i \in 1..Len(rows) : rows[i].Last_Update # NaT}

\* The weekly_trend rows (their positions) that contain record i.
WeeklyRowsOf(w, i) ==
    {n \in 1..Len(resp[w].body.weekly_trend) :
        resp[w].body.weekly_trend[n].year_week = df[w][i].YearWeek}

\* C1: a record whose Last_Update cannot be parsed gets a null Year and a
\* null YearWeek and is in no weekly_trend row, the weekly total_cases add
\* up to the number of records with a parseable Last_Update, and the record
\* is still counted in total_records, the KPI block and the breakdowns.
C1_UnparseableLeftOutOfWeekly ==
    \A w \in Workers : SummaryOk(w) =>
        LET rows == df[w]
            body == resp[w].body
        IN  /\ \A i \in 1..Len(rows) : rows[i].Last_Update = NaT =>
                   /\ rows[i].Year.kind = "nan"
                   /\ rows[i].YearWeek = NaS
                   /\ WeeklyRowsOf(w, i) = {}
            /\ SumOf(body.weekly_trend, "total_cases") = Cardinality(Parseable(rows))
            /\ body.metadata.total_records = Len(rows)
            /\ body.kpi.confirmed_cases
                   = Len(SelectSeq(rows, LAMBDA r : r.Case_Status = "Confirmed"))
            /\ SumOf(body.demographics.age_groups, "count") = Len(rows)
            /\ SumOf(body.demographics.gender, "count") = Len(rows)
            /\ SumOf(body.lga_breakdown, "cases") = Len(rows)

\* C2: a /summary request ends either with status 200 and the complete body
\* or with status 500 and only a detail that starts "Aggregation failed: ";
\* a missing file, an unreadable file, a table lacking required columns and
\* an exception of the computation each end with 500, and for missing
\* columns the detail names every missing column.
C2_AllOrNothing ==
    \A w \in Workers :
        /\ pc[w] = "loaded" => resp[w] = NoResponse
        /\ SummaryDone(w) =>
            LET r == resp[w]
                complete == /\ src[w].kind = "csv"
                            /\ required_columns \subseteq src[w].columns
                textAge == \E i \in 1..Len(src[w].rows) :
                               /\ ~IsNaText("Age", src[w].rows[i].Age)
                               /\ ~IsNumeric(src[w].rows[i].Age)
            IN  /\ \/ /\ r.status = 200
                      /\ DOMAIN r.body = {"metadata", "kpi", "demographics",
                                          "lga_breakdown", "weekly_trend"}
                   \/ /\ r.status = 500
                      /\ DOMAIN r.body = {"detail"}
                      /\ r.body.detail.prefix = "Aggregation failed: "
                /\ src[w].kind \in {"missing", "garbage"} => r.status = 500
                /\ (src[w].kind = "csv" /\ ~complete) =>
                       /\ r.status = 500
                       /\ r.body.detail.names = required_columns \ src[w].columns
                /\ (complete /\ textAge) => r.status = 500

C2_Witness ==
    \E w \in Workers :
        /\ SummaryDone(w)
        /\ src[w].kind = "csv"
        /\ Cardinality(required_columns \ src[w].columns) >= 2
        /\ resp[w].status = 500

\* C3: every record's Gender, and every category of demographics.gender,
\* is "Male", "Female" or "Other/Unknown".
C3_GenderIsOneOfThree ==
    \A w \in Workers : SummaryOk(w) =>
        /\ \A i \in 1..Len(df[w]) :
               df[w][i].Gender \in {S_Male, S_Female, S_OtherUnknown}
        /\ \A k \in 1..Len(resp[w].body.demographics.gender) :
               resp[w].body.demographics.gender[k].category
                   \in {S_Male, S_Female, S_OtherUnknown}

\* C4: every year_week label is "YYYY-Www": the four-digit calendar year of
\* its records' Last_Update, "-W", and their ISO week as two digits 01..53.
WellFormedLabel(l) ==
    /\ Len(l) = 8
    /\ \A i \in {1, 2, 3, 4, 7, 8} : IsDigit(l[i])
    /\ l[5] = "-" /\ l[6] = "W"
    /\ StrToInt(SubSeq(l, 7, 8)) \in 1..53

C4_YearWeekFormat ==
    \A w \in Workers : SummaryOk(w) =>
        \A n \in 1..Len(resp[w].body.weekly_trend) :
            LET l == resp[w].body.weekly_trend[n].year_week
            IN  /\ WellFormedLabel(l)
                /\ \A i \in Parseable(df[w]) : n \in WeeklyRowsOf(w, i) =>
                       /\ StrToInt(SubSeq(l, 1, 4)) = df[w][i].Last_Update.y
                       /\ StrToInt(SubSeq(l, 7, 8))
                              = IsoCalendar(df[w][i].Last_Update).week

\* C5: the order of the weekly_trend rows is chronological: a record of a
\* strictly earlier ISO week is in a row strictly before the row of a
\* record of a later ISO week.
IsoWeekBefore(a, b) ==
    LET ia == IsoCalendar(a)
        ib == IsoCalendar(b)
    IN  ia.year < ib.year \/ (ia.year = ib.year /\ ia.week < ib.week)

C5_WeeklyOrderChronological ==
    \A w \in Workers : SummaryOk(w) =>
        \A i, j \in Parseable(df[w]) :
            IsoWeekBefore(df[w][i].Last_Update, df[w][j].Last_Update) =>
                \A n \in WeeklyRowsOf(w, i) : \A m \in WeeklyRowsOf(w, j) : n < m

\* C6: each lga_breakdown entry's cases is the number of rows of its
\* (LGA, State) group, so the cases add up to metadata.total_records.
C6_LgaCasesAreRowCounts ==
    \A w \in Workers : SummaryOk(w) =>
        LET body == resp[w].body
            keys == SortKeys({<<df[w][i].LGA, df[w][i].State>> : i \in 1..Len(df[w])})
        IN  /\ Len(body.lga_breakdown) = Len(keys)
            /\ \A n \in 1..Len(keys) :
                   body.lga_breakdown[n].cases
                       = Len(SelectSeq(df[w], LAMBDA r : <<r.LGA, r.State>> = keys[n]))
            /\ SumOf(body.lga_breakdown, "cases") = body.metadata.total_records

\* C7: for a table that is not empty, the counts of demographics.age_groups
\* add up to total_cases and so do those of demographics.gender: every
\* record is in exactly one category of each, whose count is the number of
\* its records.
ExactBreakdown(breakdown, rows, col) ==
    /\ SumOf(breakdown, "count") = Len(rows)
    /\ \A k, l \in 1..Len(breakdown) :
           breakdown[k].category = breakdown[l].category => k = l
    /\ \A k \in 1..Len(breakdown) :
           breakdown[k].count
               = Len(SelectSeq(rows, LAMBDA r : r[col] = breakdown[k].category))

C7_BreakdownsCoverEveryRecord ==
    \A w \in Workers : (SummaryOk(w) /\ Len(src[w].rows) > 0) =>
        LET body == resp[w].body
        IN  /\ body.metadata.total_records = Len(src[w].rows)
            /\ ExactBreakdown(body.demographics.age_groups, df[w], "AgeGroup")
            /\ ExactBreakdown(body.demographics.gender, df[w], "Gender")

C7_Witness ==
    \E w \in Workers :
        /\ SummaryOk(w)
        /\ Len(src[w].rows) = 2
        /\ \E i \in 1..2 : /\ IsNaText("Age", src[w].rows[i].Age)
                           /\ IsNaText("Sex", src[w].rows[i].Sex)
        /\ Len(resp[w].body.demographics.age_groups) = 2
        /\ Len(resp[w].body.demographics.gender) = 2

\* C8: no table makes the rates divide by zero; both rates lie in [0, 100]
\* (0..1000 tenths) and are 0.0 when confirmed_cases is 0.
C8_RatesBounded ==
    \A w \in Workers : SummaryDone(w) =>
        /\ resp[w].status = 500 => resp[w].body.detail.text # "division by zero"
        /\ resp[w].status = 200 =>
            LET kpi == resp[w].body.kpi
            IN  /\ kpi.fatality_rate_percent \in 0..1000
                /\ kpi.recovery_rate_percent \in 0..1000
                /\ kpi.confirmed_cases = 0 =>
                       /\ kpi.fatality_rate_percent = 0
                       /\ kpi.recovery_rate_percent = 0

C8_Witness ==
    \E w \in Workers :
        /\ SummaryOk(w)
        /\ Len(df[w]) > 0
        /\ resp[w].body.kpi.confirmed_cases = 0

\* C9: the response to a /summary request is a function of the file as that
\* request found it: any two /summary responses, sent or ready to be sent,
\* over the same file content are equal, whatever was requested in between.
Answered == served \cup {<<src[w], resp[w]>> : w \in {v \in Workers : SummaryDone(v)}}

C9_ResponseDependsOnFileOnly ==
    \A p, q \in Answered : p[1] = q[1] => p[2] = q[2]

\* A request answered again over a content that was answered before, after
\* a failed request and a successful one over other contents.
C9_Witness ==
    \E w \in Workers :
        /\ SummaryOk(w)
        /\ \E p \in served : p[1] = src[w]
        /\ \E p \in served : p[1] # src[w] /\ p[2].status = 500
        /\ \E p \in served : p[1] # src[w] /\ p[2].status = 200
        /\ file # src[w]

\* C10: kpi.deaths + kpi.recoveries <= kpi.confirmed_cases <= total_records,
\* and the deaths of the lga_breakdown entries add up to at least kpi.deaths.
C10_KpiCountsNested ==
    \A w \in Workers : SummaryOk(w) =>
        LET body == resp[w].body
        IN  /\ body.kpi.deaths + body.kpi.recoveries <= body.kpi.confirmed_cases
            /\ body.kpi.confirmed_cases <= body.metadata.total_records
            /\ SumOf(body.lga_breakdown, "deaths") >= body.kpi.deaths

C10_Witness ==
    \E w \in Workers :
        /\ SummaryOk(w)
        /\ resp[w].body.kpi.deaths = 1
        /\ SumOf(resp[w].body.lga_breakdown, "deaths") = 2
        /\ Len(resp[w].body.lga_breakdown) = 2

====
